---- MODULE Spec2Model ----
(***************************************************************************)
(* Model of the authentication / rate-limiting gate of index.js            *)
(* (parseLimits, the apiKeys registry built at startup, the                *)
(* authAndRateLimit middleware and the failPng responder).                 *)
(*                                                                         *)
(* JavaScript strings are sequences of one-character strings, so that      *)
(* parseInt, String(), split, startsWith and substring are computed on     *)
(* characters.  JavaScript objects are functions whose DOMAIN is the set   *)
(* of defined properties; "undefined" is absence from the DOMAIN.          *)
(***************************************************************************)
EXTENDS Integers, Sequences, FiniteSets, TLC

VARIABLES env, apiKeys, requestCounts, now, last, hist, nreq, nticks,
          pin, pout, ppc, cur, nrecv, inflight, admits

vars == <<env, apiKeys, requestCounts, now, last, hist, nreq, nticks,
          pin, pout, ppc, cur, nrecv, inflight, admits>>

gateVars == <<env, apiKeys, requestCounts, now, last, hist, nreq, nticks>>

parseVars == <<pin, pout, ppc>>

routeVars == <<cur, nrecv, inflight, admits>>

\* ---------------------------------------------------------------- bounds
MaxReqs == 3

MaxTicks == 2

MaxSegs == 2

MaxRecv == 2

MaxSize == 2

\* ------------------------------------------------------- string helpers
EmptyObj == [x \in {} |-> 0]

Digits == {"0", "1", "2", "3", "4", "5", "6", "7", "8", "9"}

DigitVal == [c \in Digits |->
    CASE c = "0" -> 0 [] c = "1" -> 1 [] c = "2" -> 2 [] c = "3" -> 3
      [] c = "4" -> 4 [] c = "5" -> 5 [] c = "6" -> 6 [] c = "7" -> 7
      [] c = "8" -> 8 [] c = "9" -> 9]

DigitChar == [d \in 0..9 |->
    CASE d = 0 -> "0" [] d = 1 -> "1" [] d = 2 -> "2" [] d = 3 -> "3"
      [] d = 4 -> "4" [] d = 5 -> "5" [] d = 6 -> "6" [] d = 7 -> "7"
      [] d = 8 -> "8" [] d = 9 -> "9"]

\* the characters parseInt skips before the number
WhiteSpace == {" "}

\* s.substring(i) with a 0-based index
substring(s, i) == SubSeq(s, i + 1, Len(s))

startsWith_exact(s, p) == s = p

startsWith(s, p) == Len(s) >= Len(p) /\ SubSeq(s, 1, Len(p)) = p

\* s.split(sep) for a one-character separator: the pieces between separators
RECURSIVE split(_, _)
split(s, sep) ==
    IF \A i \in 1..Len(s) : s[i] # sep THEN <<s>>
    ELSE LET i == CHOOSE j \in 1..Len(s) :
                     s[j] = sep /\ \A k \in 1..(j - 1) : s[k] # sep
         IN  <<SubSeq(s, 1, i - 1)>> \o split(SubSeq(s, i + 1, Len(s)), sep)

\* the longest prefix of s made of digits
RECURSIVE digitPrefix(_)
digitPrefix(s) ==
    IF s = <<>> \/ Head(s) \notin Digits THEN <<>>
    ELSE <<Head(s)>> \o digitPrefix(Tail(s))

RECURSIVE skipWhite(_)
skipWhite(s) ==
    IF s # <<>> /\ Head(s) \in WhiteSpace THEN skipWhite(Tail(s)) ELSE s

RECURSIVE decimalValue(_)
decimalValue(ds) ==
    IF ds = <<>> THEN 0
    ELSE 10 * decimalValue(SubSeq(ds, 1, Len(ds) - 1)) + DigitVal[ds[Len(ds)]]

NaN == [nan |-> TRUE, val |-> 0]

\* parseInt(s, 10): leading white space, an optional sign, then the longest
\* run of digits; NaN when there is no digit.  An undefined argument is
\* converted to the text "undefined", which has no digit.
parseInt(s) ==
    LET t    == skipWhite(s)
        neg  == t # <<>> /\ Head(t) = "-"
        sgn  == t # <<>> /\ Head(t) \in {"-", "+"}
        body == IF sgn THEN Tail(t) ELSE t
        ds   == digitPrefix(body)
    IN  IF ds = <<>> THEN NaN
        ELSE [nan |-> FALSE,
              val |-> IF neg THEN 0 - decimalValue(ds) ELSE decimalValue(ds)]

RECURSIVE natToString(_)
natToString(n) ==
    IF n < 10 THEN <<DigitChar[n]>>
    ELSE natToString(n \div 10) \o <<DigitChar[n % 10]>>

\* String(n) for an integer n
String(n) == IF n < 0 THEN <<"-">> \o natToString(0 - n) ELSE natToString(n)

\* ------------------------------------------------------------ parseLimits
\* a value that may be undefined (a missing environment variable, header or
\* query field)
Undefined == [def |-> FALSE, s |-> <<>>]

Str(s) == [def |-> TRUE, s |-> s]

S_rps == <<"r", "p", "s">>

S_rpm == <<"r", "p", "m">>

S_rph == <<"r", "p", "h">>

S_rpd == <<"r", "p", "d">>

LimitKeys == {S_rps, S_rpm, S_rph, S_rpd}

\* the property of the limits object a segment key names
PropName(k) ==
    CASE k = S_rps -> "rps" [] k = S_rpm -> "rpm"
      [] k = S_rph -> "rph" [] k = S_rpd -> "rpd"

\* one iteration of the forEach of parseLimits: [key, value] = part.split(':')
parsePart(limits, part) ==
    LET pieces      == split(part, ":")
        key         == pieces[1]
        parsedValue == IF Len(pieces) >= 2 THEN parseInt(pieces[2]) ELSE NaN
    IN  IF key \in LimitKeys /\ ~parsedValue.nan
        THEN (PropName(key) :> parsedValue.val) @@ limits
        ELSE limits

RECURSIVE parseParts(_, _)
parseParts(limits, parts) ==
    IF parts = <<>> THEN limits
    ELSE parseParts(parsePart(limits, Head(parts)), Tail(parts))

parseLimits(limitString) ==
    IF ~limitString.def \/ limitString.s = <<>> THEN EmptyObj
    ELSE LET plainNumber == parseInt(limitString.s)
         IN  IF ~plainNumber.nan /\ String(plainNumber.val) = limitString.s
             THEN ("rps" :> plainNumber.val)
             ELSE parseParts(EmptyObj, split(limitString.s, ","))

\* ----------------------------------------------------------- key registry
K_foo == <<"f", "o", "o">>

K_bar == <<"b", "a", "r">>

K_bad == <<"b", "a", "d">>

ANONYMOUS == <<"_", "a", "n", "o", "n", "y", "m", "o", "u", "s", "_">>

\* the property name that reads the prototype of an object
K_proto == <<"_", "_", "p", "r", "o", "t", "o", "_", "_">>

\* obj[name], undefined when the property is absent
Lookup(obj, name) == IF name \in DOMAIN obj THEN Str(obj[name]) ELSE Undefined

\* the startup loop over the authn<i> variables, in the order the environment
\* lists them, each paired with limit<i>
RECURSIVE loadAuthn(_, _, _)
loadAuthn(e, order, keys) ==
    IF order = <<>> THEN keys
    ELSE LET keyIndex == Head(order)
             apiKey   == e.authn[keyIndex]
             limits   == parseLimits(Lookup(e.limit, keyIndex))
         IN  loadAuthn(e, Tail(order), (apiKey :> limits) @@ keys)

loadKeys_anonymousFirst(e) ==
    loadAuthn(e, e.order, (ANONYMOUS :> parseLimits(e.limita)))

\* apiKeys after startup: the authn keys, then the anonymous entry
loadKeys(e) ==
    LET anonymousLimits == parseLimits(e.limita)
    IN  (ANONYMOUS :> anonymousLimits) @@ loadAuthn(e, e.order, EmptyObj)

\* --------------------------------------------------------------- responses
M_Unauthorized == <<85, 110, 97, 117, 116, 104, 111, 114, 105, 122, 101, 100,
                    58, 32, 73, 110, 118, 97, 108, 105, 100, 32, 65, 80, 73,
                    32, 107, 101, 121, 46>>

M_TooManyRequests == <<84, 111, 111, 32, 77, 97, 110, 121, 32, 82, 101, 113,
                       117, 101, 115, 116, 115>>

M_ChartError == <<67, 104, 97, 114, 116, 32, 69, 114, 114, 111, 114, 58, 32>>

\* a message is a sequence of code points; TextEncoder gives its UTF-8 bytes
\* and String.fromCharCode turns every byte into one character
RECURSIVE utf8ToAscii(_)
utf8ToAscii(str) ==
    IF str = <<>> THEN <<>>
    ELSE LET c == Head(str)
             bytes == IF c < 128 THEN <<c>>
                      ELSE IF c < 2048
                           THEN <<192 + (c \div 64), 128 + (c % 64)>>
                           ELSE <<224 + (c \div 4096),
                                  128 + ((c \div 64) % 64), 128 + (c % 64)>>
         IN  bytes \o utf8ToAscii(Tail(str))

sanitizeErrorHeader_notString(msg) == <<>>

\* msg.replace(/\r?\n|\r/g, ''): every CR and LF goes
sanitizeErrorHeader(msg) ==
    SelectSeq(utf8ToAscii(msg), LAMBDA c : c # 10 /\ c # 13)

NoResponse ==
    [status |-> 0, contentType |-> "", errorHeader |-> <<>>,
     body |-> [kind |-> "none", text |-> <<>>]]

\* failPng(res, msg, statusCode): the head and the text2png body
failPng(msg, statusCode) ==
    [status |-> statusCode, contentType |-> "image/png",
     errorHeader |-> sanitizeErrorHeader(msg),
     body |-> [kind |-> "png", text |-> M_ChartError \o msg]]

\* -------------------------------------------------------------------- gate
Units == {"s", "m", "h", "d"}

WindowMs == [u \in Units |->
    CASE u = "s" -> 1000
      [] u = "m" -> 1000 * 60
      [] u = "h" -> 1000 * 60 * 60
      [] u = "d" -> 1000 * 60 * 60 * 24]

Bucket_tenth(u, t) == t \div (WindowMs[u] \div 10)

\* Math.floor(now / length) of a non-negative time
Bucket(u, t) == t \div WindowMs[u]

TsKey == [u \in Units |->
    CASE u = "s" -> "ts_s" [] u = "m" -> "ts_m"
      [] u = "h" -> "ts_h" [] u = "d" -> "ts_d"]

CountKey == [u \in Units |->
    CASE u = "s" -> "count_s" [] u = "m" -> "count_m"
      [] u = "h" -> "count_h" [] u = "d" -> "count_d"]

LimitProp == [u \in Units |->
    CASE u = "s" -> "rps" [] u = "m" -> "rpm"
      [] u = "h" -> "rph" [] u = "d" -> "rpd"]

withinLimit_strict(count, limit) == count < limit

\* the pass test of check: counts[countKey] <= limit
withinLimit(count, limit) == count <= limit

bump_noReset(counts, unit, timestamp) ==
    IF TsKey[unit] \notin DOMAIN counts
    THEN (TsKey[unit] :> timestamp) @@ (CountKey[unit] :> 1) @@ counts
    ELSE (TsKey[unit] :> timestamp)
         @@ (CountKey[unit] :> counts[CountKey[unit]] + 1) @@ counts

bump_lost(counts, unit, timestamp) ==
    IF TsKey[unit] \notin DOMAIN counts \/ counts[TsKey[unit]] # timestamp
    THEN (TsKey[unit] :> timestamp) @@ (CountKey[unit] :> 1) @@ counts
    ELSE counts

\* the counter update of check: a new bucket restarts at 1, else one more
bump(counts, unit, timestamp) ==
    IF TsKey[unit] \notin DOMAIN counts \/ counts[TsKey[unit]] # timestamp
    THEN (TsKey[unit] :> timestamp) @@ (CountKey[unit] :> 1) @@ counts
    ELSE (CountKey[unit] :> counts[CountKey[unit]] + 1) @@ counts

check_zeroUnlimited(counts, limits, unit, timestamp) ==
    IF LimitProp[unit] \notin DOMAIN limits \/ limits[LimitProp[unit]] = 0
    THEN [ok |-> TRUE, counts |-> counts]
    ELSE LET c == bump(counts, unit, timestamp)
         IN  [ok |-> withinLimit(c[CountKey[unit]], limits[LimitProp[unit]]),
              counts |-> c]

\* check(limit, unit, timestamp) on the counts object of the key: the result
\* and the counts it leaves
check(counts, limits, unit, timestamp) ==
    IF LimitProp[unit] \notin DOMAIN limits THEN [ok |-> TRUE, counts |-> counts]
    ELSE IF limits[LimitProp[unit]] = 0 THEN [ok |-> FALSE, counts |-> counts]
    ELSE LET c == bump(counts, unit, timestamp)
         IN  [ok |-> withinLimit(c[CountKey[unit]], limits[LimitProp[unit]]),
              counts |-> c]

checkAll_hourIgnored(counts, limits, t) ==
    LET r1 == check(counts, limits, "s", Bucket("s", t))
    IN  IF ~r1.ok THEN r1
        ELSE LET r2 == check(r1.counts, limits, "m", Bucket("m", t))
             IN  IF ~r2.ok THEN r2
                 ELSE LET r3 == check(r2.counts, limits, "h", Bucket("h", t))
                      IN  check(r3.counts, limits, "d", Bucket("d", t))

\* !check(rps) || !check(rpm) || !check(rph) || !check(rpd): evaluated left
\* to right, stopping at the first check that fails
checkAll(counts, limits, t) ==
    LET r1 == check(counts, limits, "s", Bucket("s", t))
    IN  IF ~r1.ok THEN r1
        ELSE LET r2 == check(r1.counts, limits, "m", Bucket("m", t))
             IN  IF ~r2.ok THEN r2
                 ELSE LET r3 == check(r2.counts, limits, "h", Bucket("h", t))
                      IN  IF ~r3.ok THEN r3
                          ELSE check(r3.counts, limits, "d", Bucket("d", t))

has_keyRequired(keys, key) == key \in DOMAIN keys /\ key # ANONYMOUS

\* apiKeys.has(key)
has(keys, key) == key \in DOMAIN keys

S_Bearer == <<"B", "e", "a", "r", "e", "r", " ">>

resolveKey_queryFirst(req) ==
    LET authHeader == Lookup(req.headers, "authorization")
        queryKey   == Lookup(req.query, "key")
    IN  IF queryKey.def /\ queryKey.s # <<>> THEN queryKey.s
        ELSE IF authHeader.def /\ authHeader.s # <<>>
                /\ startsWith(authHeader.s, S_Bearer)
        THEN substring(authHeader.s, 7)
        ELSE ANONYMOUS

\* step 1 of authAndRateLimit: the key of the request
resolveKey(req) ==
    LET authHeader == Lookup(req.headers, "authorization")
        queryKey   == Lookup(req.query, "key")
    IN  IF authHeader.def /\ authHeader.s # <<>>
           /\ startsWith(authHeader.s, S_Bearer)
        THEN substring(authHeader.s, 7)
        ELSE IF queryKey.def /\ queryKey.s # <<>> THEN queryKey.s
        ELSE ANONYMOUS

\* ------------------------------------------------------------ environment
\* the limit strings tried for limit0, the limit of key foo
Limit0Strings ==
    {<<"r", "p", "m", ":", "2">>,
     <<"r", "p", "h", ":", "1">>,
     <<"r", "p", "s", ":", "1", ",", "r", "p", "m", ":", "3">>,
     <<"r", "p", "s", ":", "1", ",", "r", "p", "m", ":", "2">>,
     <<"r", "p", "s", ":", "0">>,
     <<"0">>,
     <<"r", "p", "m", ":", "0", ",", "r", "p", "s", ":", "5">>,
     <<"r", "p", "s", ":", "2", ",", "r", "p", "h", ":", "1", ",", "r", "p", "d", ":", "2">>}

S_rps1 == <<"r", "p", "s", ":", "1">>

LimitaStrings == {<<"r", "p", "h", ":", "2">>, <<"0">>}

\* process.env: authn0 = foo and authn1 = bar; limit0 set to one of the
\* strings above or unset while limit1 = rps:1 and limita is unset, or
\* limit0 = rpm:2, limit1 unset and limita set
Envs ==
    {[authn |-> (0 :> K_foo) @@ (1 :> K_bar), limit |-> l0 @@ (1 :> S_rps1),
      limita |-> Undefined, order |-> <<0, 1>>] :
        l0 \in {EmptyObj} \cup {(0 :> x) : x \in Limit0Strings}}
    \cup
    {[authn |-> (0 :> K_foo) @@ (1 :> K_bar),
      limit |-> (0 :> <<"r", "p", "m", ":", "2">>),
      limita |-> Str(la), order |-> <<0, 1>>] : la \in LimitaStrings}

\* the requests tried: the Authorization header and the key query field
H_BearerFoo == <<"B", "e", "a", "r", "e", "r", " ", "f", "o", "o">>

H_BearerBad == <<"B", "e", "a", "r", "e", "r", " ", "b", "a", "d">>

H_BasicFoo == <<"B", "a", "s", "i", "c", " ", "f", "o", "o">>

Req(h, q) == [headers |-> h, query |-> q]

Hdr(x) == ("authorization" :> x)

Qry(x) == ("key" :> x)

Requests ==
    {Req(EmptyObj, EmptyObj), Req(EmptyObj, Qry(<<>>)),
     Req(EmptyObj, Qry(K_foo)), Req(EmptyObj, Qry(K_bad)),
     Req(Hdr(H_BearerFoo), EmptyObj), Req(Hdr(H_BearerFoo), Qry(K_bar)),
     Req(Hdr(H_BearerBad), Qry(K_foo)), Req(Hdr(H_BasicFoo), Qry(K_bar))}

\* ------------------------------------------------- requests to the routes
UpperCase == <<"A", "B", "C", "D", "E", "F", "G", "H", "I", "J", "K", "L", "M",
               "N", "O", "P", "Q", "R", "S", "T", "U", "V", "W", "X", "Y", "Z">>

LowerCase == <<"a", "b", "c", "d", "e", "f", "g", "h", "i", "j", "k", "l", "m",
               "n", "o", "p", "q", "r", "s", "t", "u", "v", "w", "x", "y", "z">>

\* s.toLowerCase()
toLowerCase(s) ==
    [i \in 1..Len(s) |->
        IF \E j \in 1..26 : UpperCase[j] = s[i]
        THEN LowerCase[CHOOSE j \in 1..26 : UpperCase[j] = s[i]]
        ELSE s[i]]

\* a number that is not NaN
Num(n) == [nan |-> FALSE, val |-> n]

\* parseInt(v, 10) of a field that may be undefined
parseIntOf(v) == IF v.def THEN parseInt(v.s) ELSE NaN

\* Math.min(a, b)
mathMin(a, b) ==
    IF a.nan \/ b.nan THEN NaN ELSE IF a.val <= b.val THEN a ELSE b

\* a || d for numbers: NaN and 0 are falsy
orNum(a, d) == IF a.nan \/ a.val = 0 THEN d ELSE a

\* DEFAULT_QR_SIZE of ./lib/qr
DEFAULT_QR_SIZE == 150

\* a value is truthy when it is defined and not the empty string
truthy(v) == v.def /\ v.s # <<>>

\* a || b
Or(a, b) == IF truthy(a) THEN a ELSE b

S_png == <<"p", "n", "g">>

S_svg == <<"s", "v", "g">>

S_pdf == <<"p", "d", "f">>

S_qr == <<"q", "r">>

S_gv == <<"g", "v">>

S_dot == <<"d", "o", "t">>

S_chartjsConfig == <<"c", "h", "a", "r", "t", "j", "s", "-", "c", "o", "n", "f", "i", "g">>

\* values of the query and body fields tried
V_SVG == <<"S", "V", "G">>

V_gif == <<"g", "i", "f">>

V_gvNeato == <<"g", "v", ":", "n", "e", "a", "t", "o">>

V_bvs == <<"b", "v", "s">>

V_size == <<"3", "0", "0", "x", "2", "0", "0">>

V_chart == <<"{", "t", "y", "p", "e", ":", "'", "b", "a", "r", "'", "}">>

V_text == <<"h", "e", "l", "l", "o">>

\* a field that is absent or has one of the values
Opt(name, vals) == {EmptyObj} \cup {(name :> v) : v \in vals}

\* the fields of a native chart request: f, format, c or chart
NativeFields ==
    {a @@ b @@ c :
        a \in Opt("f", {V_SVG, S_pdf, V_gif}),
        b \in Opt("format", {S_svg}),
        c \in Opt("c", {V_chart}) \cup Opt("chart", {V_chart})}

\* the same with a cht that is empty
EmptyChtFields ==
    {("cht" :> <<>>) @@ a @@ c :
        a \in Opt("f", {V_SVG}), c \in Opt("c", {V_chart})}

\* the fields of a legacy request: cht with chs and chof, or with format
LegacyFields ==
    {("cht" :> x) @@ b @@ c :
        x \in {S_gv, V_gvNeato}, b \in Opt("chs", {V_size}),
        c \in Opt("chof", {S_png})}
    \cup {("cht" :> S_qr) @@ b : b \in Opt("chs", {V_size})}
    \cup {("cht" :> V_bvs) @@ d : d \in Opt("format", {S_chartjsConfig})}

\* the fields of a request that has no cht
NoChtFields == Opt("chs", {V_size}) \cup Opt("format", {S_chartjsConfig})

QrFields ==
    {a @@ b : a \in Opt("text", {V_text}), b \in Opt("format", {S_svg, S_png})}

BodyFields ==
    {a @@ c :
        a \in Opt("f", {V_SVG, S_pdf, V_gif}),
        c \in Opt("c", {V_chart}) \cup Opt("chart", {V_chart})}

HttpReq(method, path, headers, query, body) ==
    [method |-> method, path |-> path, headers |-> headers, query |-> query,
     body |-> body]

\* the method, path, query and body of the requests tried
RouteShapes ==
    {<<"GET", "/chart", q, EmptyObj>> :
         q \in NativeFields \cup EmptyChtFields \cup LegacyFields}
    \cup {<<"GET", "/gchart", q, EmptyObj>> : q \in LegacyFields \cup NoChtFields}
    \cup {<<"POST", "/chart", EmptyObj, b>> : b \in BodyFields}
    \cup {<<"GET", "/qr", q, EmptyObj>> : q \in QrFields}
    \cup {<<"GET", p, EmptyObj, EmptyObj>> :
              p \in {"/", "/healthcheck", "/healthcheck/chart", "/qr-code-api",
                     "/qr-code-api.html", "/nope"}}
    \cup {<<"POST", p, EmptyObj, EmptyObj>> : p \in {"/telemetry", "/healthcheck"}}

RouteRequests ==
    {HttpReq(x[1], x[2], h, x[3], x[4]) :
        x \in RouteShapes,
        h \in {EmptyObj, Hdr(H_BearerFoo), Hdr(H_BearerBad)}}

\* the steps by which the clock advances between requests
TickSteps == {600, 1000 * 60, 1000 * 60 * 60, 1000 * 60 * 60 * 24}

\* the clock at the start, half a second into a second
StartNow == 500

\* ------------------------------------------------------------------- state
\* hist is the observer's record, per registered key and unit the key has a
\* bound on, of the gate checks seen in the bucket of the latest check (how
\* many, how many admitted) and of the number seen in the bucket before it
NoHist == [bucket |-> -1, checks |-> 0, admitted |-> 0, before |-> 0]

observe(h, limits, key, t, admitted) ==
    [h EXCEPT ![key] = [u \in Units |->
        LET old == h[key][u]
            inc == IF admitted THEN 1 ELSE 0
        IN  IF LimitProp[u] \notin DOMAIN limits THEN old
            ELSE IF old.bucket = Bucket(u, t)
            THEN [old EXCEPT !.checks = old.checks + 1,
                             !.admitted = old.admitted + inc]
            ELSE [bucket |-> Bucket(u, t), checks |-> 1, admitted |-> inc,
                  before |-> old.checks]]]

NoRequest == Req(EmptyObj, EmptyObj)

NoLast ==
    [seen |-> FALSE, req |-> NoRequest, key |-> <<>>, res |-> NoResponse,
     next |-> FALSE]

InitParseIdle ==
    /\ pin = Undefined
    /\ pout = EmptyObj
    /\ ppc = "idle"

\* what is known of the request being handled: the route taken (branch),
\* the responses written, the collaborators invoked and those that failed,
\* the promise still pending with the failure function and the message it
\* will use, the size or the width and height handed to the collaborator,
\* an exception that left the handler (thrown), a rejection no
\* one handles (unhandled), and the telemetry counter bumped
NoCur ==
    [active |-> FALSE, req |-> HttpReq("", "", EmptyObj, EmptyObj, EmptyObj),
     gate |-> "none", branch |-> "none", engine |-> <<>>,
     format |-> Undefined, responses |-> <<>>, invoked |-> {}, failed |-> {},
     pending |-> "none", failFn |-> "none", msg |-> <<>>, msgIsString |-> TRUE,
     size |-> NaN, width |-> NaN, height |-> NaN,
     thrown |-> FALSE, unhandled |-> FALSE, telemetry |-> "none"]

InitRouteIdle ==
    /\ cur = NoCur
    /\ nrecv = 0
    /\ inflight = {}
    /\ admits = <<>>

Init ==
    /\ env \in Envs
    /\ apiKeys = loadKeys(env)
    /\ requestCounts = EmptyObj
    /\ now = StartNow
    /\ last = NoLast
    /\ hist = [k \in DOMAIN loadKeys(env) |-> [u \in Units |-> NoHist]]
    /\ nreq = 0
    /\ nticks = 0
    /\ InitParseIdle
    /\ InitRouteIdle

\* requestCounts is a plain object: requestCounts['__proto__'] is
\* Object.prototype, never absent, and the entry of K_proto in the store
\* stands for the properties written to it
prototypeOf(store) ==
    IF K_proto \in DOMAIN store THEN store[K_proto] ELSE EmptyObj

\* the own properties of requestCounts[key], none before its first check
ownCounts(store, key) ==
    IF key \in DOMAIN store THEN store[key] ELSE EmptyObj

\* what the properties of requestCounts[key] read as: its own ones, then the
\* ones it inherits from Object.prototype
countsOf(store, key) == ownCounts(store, key) @@ prototypeOf(store)

\* the own properties after the check: every property check has written
\* (it writes a value only where it read another one) besides the old ones
written(own, before, after) ==
    [p \in DOMAIN own \cup {q \in DOMAIN after :
                              q \notin DOMAIN before \/ after[q] # before[q]}
        |-> after[p]]

authAndRateLimitStep_storeFirst(req) ==
    /\ nreq < MaxReqs
    /\ nreq' = nreq + 1
    /\ LET key == resolveKey(req)
       IN  IF ~has(apiKeys, key)
           THEN /\ last' = [seen |-> TRUE, req |-> req, key |-> key,
                            res |-> failPng(M_Unauthorized, 401),
                            next |-> FALSE]
                /\ requestCounts' =
                       (key :> ownCounts(requestCounts, key)) @@ requestCounts
                /\ UNCHANGED hist
           ELSE LET limits == apiKeys[key]
                    counts == countsOf(requestCounts, key)
                    r      == checkAll(counts, limits, now)
                    own    == written(ownCounts(requestCounts, key), counts,
                                      r.counts)
                IN  /\ requestCounts' = (key :> own) @@ requestCounts
                    /\ hist' = observe(hist, limits, key, now, r.ok)
                    /\ last' = [seen |-> TRUE, req |-> req, key |-> key,
                                res |-> IF r.ok THEN NoResponse
                                        ELSE failPng(M_TooManyRequests, 429),
                                next |-> r.ok]

\* the body of the middleware authAndRateLimit on one request: last.next
\* tells whether next() was called
authAndRateLimitStep(req) ==
    /\ nreq < MaxReqs
    /\ nreq' = nreq + 1
    /\ LET key == resolveKey(req)
       IN  IF ~has(apiKeys, key)
           THEN /\ last' = [seen |-> TRUE, req |-> req, key |-> key,
                            res |-> failPng(M_Unauthorized, 401),
                            next |-> FALSE]
                /\ UNCHANGED <<requestCounts, hist>>
           ELSE LET limits == apiKeys[key]
                    counts == countsOf(requestCounts, key)
                    r      == checkAll(counts, limits, now)
                    own    == written(ownCounts(requestCounts, key), counts,
                                      r.counts)
                IN  /\ requestCounts' = (key :> own) @@ requestCounts
                    /\ hist' = observe(hist, limits, key, now, r.ok)
                    /\ last' = [seen |-> TRUE, req |-> req, key |-> key,
                                res |-> IF r.ok THEN NoResponse
                                        ELSE failPng(M_TooManyRequests, 429),
                                next |-> r.ok]

\* the middleware authAndRateLimit on one request to a protected route
authAndRateLimit(req) ==
    /\ authAndRateLimitStep(req)
    /\ UNCHANGED <<env, apiKeys, now, nticks, parseVars, routeVars>>

\* time passes between two requests
Tick(d) ==
    /\ nticks < MaxTicks
    /\ nticks' = nticks + 1
    /\ now' = now + d
    /\ UNCHANGED <<env, apiKeys, requestCounts, last, hist, nreq, parseVars,
                   routeVars>>

Next ==
    \/ \E req \in Requests : authAndRateLimit(req)
    \/ \E d \in TickSteps : Tick(d)

Spec == Init /\ [][Next]_vars

\* ------------------------------------------------- parseLimits on its own
\* the segments the limit strings tried are made of: well-formed ones, bare
\* numbers, and malformed ones of every shape
Segments ==
    {<<"r", "p", "s", ":", "1", "0">>,
     <<"r", "p", "s", ":", "1">>,
     <<"r", "p", "m", ":", "6", "0">>,
     <<"r", "p", "d", ":", "1", "0", "0", "0">>,
     <<"r", "p", "h", ":", "0">>,
     <<"1", "0">>,
     <<"0">>,
     <<"g", "a", "r", "b", "a", "g", "e">>,
     <<"r", "p", "x", ":", "5">>,
     <<"r", "p", "s", ":">>,
     <<"r", "p", "s", ":", "x">>,
     <<"r", "p", "m", ":", "5", "x">>,
     <<"r", "p", "s", ":", "-", "1">>,
     <<"-", "5">>,
     <<>>}

RECURSIVE join(_)
join(segs) ==
    IF Len(segs) = 1 THEN segs[1]
    ELSE segs[1] \o <<",">> \o join(Tail(segs))

RECURSIVE SegLists(_)
SegLists(n) ==
    IF n = 0 THEN {<<>>}
    ELSE {<<>>} \cup {<<x>> \o l : x \in Segments, l \in SegLists(n - 1)}

\* undefined, and every string of at most MaxSegs segments joined by commas
ParseInputs ==
    {Undefined} \cup {Str(join(l)) : l \in SegLists(MaxSegs) \ {<<>>}}

\* the parser of the specification: a string of digits is a per-second
\* bound; otherwise the comma-separated segments unit:digits are kept, the
\* last of a unit winning, and every other segment is ignored
isNatLiteral(s) == s # <<>> /\ \A i \in 1..Len(s) : s[i] \in Digits

refPart(limits, part) ==
    LET pieces == split(part, ":")
    IN  IF Len(pieces) = 2 /\ pieces[1] \in LimitKeys /\ isNatLiteral(pieces[2])
        THEN (PropName(pieces[1]) :> decimalValue(pieces[2])) @@ limits
        ELSE limits

RECURSIVE refParts(_, _)
refParts(limits, parts) ==
    IF parts = <<>> THEN limits
    ELSE refParts(refPart(limits, Head(parts)), Tail(parts))

refParse(v) ==
    IF ~v.def \/ v.s = <<>> THEN EmptyObj
    ELSE IF isNatLiteral(v.s) THEN ("rps" :> decimalValue(v.s))
    ELSE refParts(EmptyObj, split(v.s, ","))

NoEnv ==
    [authn |-> EmptyObj, limit |-> EmptyObj, limita |-> Undefined,
     order |-> <<>>]

InitParse ==
    /\ env = NoEnv
    /\ apiKeys = loadKeys(NoEnv)
    /\ requestCounts = EmptyObj
    /\ now = StartNow
    /\ last = NoLast
    /\ hist = [k \in DOMAIN loadKeys(NoEnv) |-> [u \in Units |-> NoHist]]
    /\ nreq = 0
    /\ nticks = 0
    /\ pin \in ParseInputs
    /\ pout = EmptyObj
    /\ ppc = "start"
    /\ InitRouteIdle

\* one call of parseLimits
Parse ==
    /\ ppc = "start"
    /\ pout' = parseLimits(pin)
    /\ ppc' = "done"
    /\ UNCHANGED <<pin, gateVars, routeVars>>

NextParse == Parse

SpecParse == InitParse /\ [][NextParse]_vars

\* ------------------------------------------------------------- the routes
M_MissingChart == <<89, 111, 117, 32, 97, 114, 101, 32, 109, 105, 115, 115, 105, 110, 103, 32, 118, 97, 114, 105, 97, 98, 108, 101, 32, 96, 99, 96, 32, 111, 114, 32, 96, 99, 104, 97, 114, 116, 96>>

M_MissingText == <<89, 111, 117, 32, 97, 114, 101, 32, 109, 105, 115, 115, 105, 110, 103, 32, 118, 97, 114, 105, 97, 98, 108, 101, 32, 96, 116, 101, 120, 116, 96>>

\* the text before the format in 'Unsupported format ${outputFormat}'
M_UnsupportedFormat == <<85, 110, 115, 117, 112, 112, 111, 114, 116, 101, 100, 32, 102, 111, 114, 109, 97, 116, 32>>

M_NotSupported == <<83, 111, 114, 114, 121, 44, 32, 116, 104, 105, 115, 32, 99, 104, 97, 114, 116, 32, 99, 111, 110, 102, 105, 103, 117, 114, 97, 116, 105, 111, 110, 32, 105, 115, 32, 110, 111, 116, 32, 115, 117, 112, 112, 111, 114, 116, 101, 100, 32, 114, 105, 103, 104, 116, 32, 110, 111, 119>>

M_GraphError == <<71, 114, 97, 112, 104, 32, 69, 114, 114, 111, 114, 58, 32>>

\* `${err}` of the Error a collaborator rejects with
M_Error == <<69, 114, 114, 111, 114, 58, 32, 102, 97, 105, 108, 101, 100>>

\* failSvg(res, msg, statusCode): the head and the SVG body with the message
failSvg(msg, statusCode) ==
    [status |-> statusCode, contentType |-> "image/svg+xml",
     errorHeader |-> sanitizeErrorHeader(msg),
     body |-> [kind |-> "svg", text |-> msg]]

\* the response of a failure function called with an Error in place of a
\* string: typeof msg is not 'string' and sanitizeErrorHeader returns ''
withErrorObject(res) == [res EXCEPT !.errorHeader = <<>>]

\* what failPdf writes once getPdfBufferWithText(msg) has resolved
failPdf(msg, isString) ==
    [status |-> 500, contentType |-> "application/pdf",
     errorHeader |-> IF isString THEN sanitizeErrorHeader(msg) ELSE <<>>,
     body |-> [kind |-> "pdf", text |-> msg]]

rendered_png(contentType, kind) ==
    [status |-> 200, contentType |-> "image/png", errorHeader |-> <<>>,
     body |-> [kind |-> "png", text |-> <<>>]]

\* a response of status 200 with the content type and the rendered buffer
rendered(contentType, kind) ==
    [status |-> 200, contentType |-> contentType, errorHeader |-> <<>>,
     body |-> [kind |-> kind, text |-> <<>>]]

\* res.status(500).end(text): a body of plain text and no Content-Type
plainFailure(text) ==
    [status |-> 500, contentType |-> "", errorHeader |-> <<>>,
     body |-> [kind |-> "text", text |-> text]]

\* what the framework answers when a handler throws: status 500 and a page
uncaught ==
    [status |-> 500, contentType |-> "text/html", errorHeader |-> <<>>,
     body |-> [kind |-> "html", text |-> <<>>]]

\* what the framework answers when no route matches
notFound ==
    [status |-> 404, contentType |-> "text/html", errorHeader |-> <<>>,
     body |-> [kind |-> "html", text |-> <<>>]]

\* res.redirect('/chart?c=...')
redirect ==
    [status |-> 302, contentType |-> "text/plain", errorHeader |-> <<>>,
     body |-> [kind |-> "redirect", text |-> <<>>]]

Start(req, gate) == [NoCur EXCEPT !.active = TRUE, !.req = req, !.gate = gate]

respond(c, res) == [c EXCEPT !.responses = Append(@, res)]

\* a collaborator is called and its promise is pending
invoke(c, name) == [c EXCEPT !.invoked = @ \cup {name}, !.pending = name]

\* an exception leaves the handler
throw(c) == [respond(c, uncaught) EXCEPT !.thrown = TRUE]

\* opts.failFn(res, msg): failPng and failSvg answer at once, failPdf awaits
\* getPdfBufferWithText(msg) first
fail(c, msg, isString) ==
    IF c.failFn = "failPdf"
    THEN [invoke(c, "getPdfBufferWithText") EXCEPT
              !.msg = msg, !.msgIsString = isString]
    ELSE LET r == IF c.failFn = "failSvg" THEN failSvg(msg, 500)
                  ELSE failPng(msg, 500)
         IN  respond(c, IF isString THEN r ELSE withErrorObject(r))

doChartjsRender(c, opts) ==
    IF ~truthy(opts.chart) THEN fail(c, M_MissingChart, TRUE)
    ELSE [invoke(c, "renderChartJs") EXCEPT
              !.width = orNum(parseIntOf(opts.width), Num(500)),
              !.height = orNum(parseIntOf(opts.height), Num(300))]

renderChartToPng(c, opts) == doChartjsRender([c EXCEPT !.failFn = "failPng"], opts)

renderChartToSvg(c, opts) == doChartjsRender([c EXCEPT !.failFn = "failSvg"], opts)

renderChartToPdf(c, opts) == doChartjsRender([c EXCEPT !.failFn = "failPdf"], opts)

\* handleGChart(req, res); translated tells whether toChartJs returns
handleGChart(c, translated) ==
    LET cht  == Lookup(c.req.query, "cht")
        chs  == Lookup(c.req.query, "chs")
        chof == Lookup(c.req.query, "chof")
    IN  IF ~cht.def THEN throw([c EXCEPT !.branch = "legacy"])
        ELSE IF startsWith(cht.s, S_gv)
        THEN [invoke(c, "renderGraphviz") EXCEPT
                  !.branch = "graphviz",
                  !.format = chof,
                  !.engine = IF \E i \in 1..Len(cht.s) : cht.s[i] = ":"
                             THEN split(cht.s, ":")[2] ELSE S_dot]
        ELSE IF cht.s = S_qr
        THEN IF ~chs.def THEN throw([c EXCEPT !.branch = "qr"])
             ELSE [invoke(c, "renderQr") EXCEPT
                       !.branch = "qr", !.format = Str(S_png),
                       !.size = parseInt(split(chs.s, "x")[1]),
                       !.telemetry = "qrCount"]
        ELSE LET d == [c EXCEPT !.branch = "translate",
                                !.invoked = @ \cup {"toChartJs"}]
             IN  IF ~translated
                 THEN respond([d EXCEPT !.failed = @ \cup {"toChartJs"}],
                              plainFailure(M_NotSupported))
                 ELSE IF Lookup(c.req.query, "format") = Str(S_chartjsConfig)
                 THEN respond(d, rendered("application/json", "json"))
                 ELSE [invoke(d, "renderChartJs") EXCEPT
                           !.telemetry = "chartCount"]

\* the output format of a native chart request
outputFormat(fields) ==
    toLowerCase(Or(Or(Lookup(fields, "f"), Lookup(fields, "format")),
                   Str(S_png)).s)

\* the opts of a native chart request: chart, width and height
chartOpts(fields) ==
    [chart  |-> Or(Lookup(fields, "c"), Lookup(fields, "chart")),
     width  |-> Or(Lookup(fields, "w"), Lookup(fields, "width")),
     height |-> Or(Lookup(fields, "h"), Lookup(fields, "height"))]

\* app.get('/chart')
getChart(c, translated) ==
    IF truthy(Lookup(c.req.query, "cht")) THEN handleGChart(c, translated)
    ELSE LET f     == outputFormat(c.req.query)
             opts  == chartOpts(c.req.query)
             d     == [c EXCEPT !.branch = "native", !.format = Str(f)]
             r     == IF f = S_pdf THEN renderChartToPdf(d, opts)
                      ELSE IF f = S_svg THEN renderChartToSvg(d, opts)
                      ELSE IF f = <<>> \/ f = S_png
                           THEN renderChartToPng(d, opts)
                      ELSE respond(d, plainFailure(M_UnsupportedFormat))
         IN  [r EXCEPT !.telemetry = "chartCount"]

\* app.post('/chart')
postChart(c) ==
    LET f     == outputFormat(c.req.body)
        opts  == chartOpts(c.req.body)
        d     == [c EXCEPT !.branch = "native", !.format = Str(f)]
        r     == IF f = S_pdf THEN renderChartToPdf(d, opts)
                 ELSE IF f = S_svg THEN renderChartToSvg(d, opts)
                 ELSE renderChartToPng(d, opts)
    IN  [r EXCEPT !.telemetry = "chartCount"]

\* app.get('/qr')
getQr(c) ==
    LET qrText == Lookup(c.req.query, "text")
        d      == [c EXCEPT !.branch = "qr"]
    IN  IF ~truthy(qrText) THEN respond(d, failPng(M_MissingText, 500))
        ELSE [invoke(d, "renderQr") EXCEPT
                  !.format = IF Lookup(c.req.query, "format") = Str(S_svg)
                             THEN Str(S_svg) ELSE Str(S_png),
                  !.size = orNum(mathMin(Num(3000),
                                         parseIntOf(Lookup(c.req.query, "size"))),
                                 Num(DEFAULT_QR_SIZE)),
                  !.telemetry = "qrCount"]

isPublicRoute_noTelemetry(method, path) ==
    \/ method = "GET" /\ path \in {"/", "/healthcheck", "/healthcheck/chart"}

\* the routes defined before app.use(authAndRateLimit)
isPublicRoute(method, path) ==
    \/ method = "GET" /\ path \in {"/", "/healthcheck", "/healthcheck/chart"}
    \/ method = "POST" /\ path = "/telemetry"

\* the handlers of the public routes
publicRoute(c) ==
    LET d == [c EXCEPT !.branch = "public"]
    IN  IF c.req.path = "/" THEN respond(d, rendered("text/html", "html"))
        ELSE IF c.req.path = "/healthcheck/chart" THEN respond(d, redirect)
        ELSE respond(d, rendered("application/json", "json"))

\* the routes defined after app.use(authAndRateLimit), in their order
protectedRoute(c, translated) ==
    LET m == c.req.method
        p == c.req.path
    IN  IF m = "GET" /\ p = "/qr-code-api.html"
        THEN respond([c EXCEPT !.branch = "static"], rendered("text/html", "file"))
        ELSE IF m = "GET" /\ p = "/qr-code-api"
        THEN respond([c EXCEPT !.branch = "doc"], rendered("text/html", "file"))
        ELSE IF m = "GET" /\ p = "/chart" THEN getChart(c, translated)
        ELSE IF m = "POST" /\ p = "/chart" THEN postChart(c)
        ELSE IF m = "GET" /\ p = "/qr" THEN getQr(c)
        ELSE IF m = "GET" /\ p = "/gchart" THEN handleGChart(c, translated)
        ELSE respond([c EXCEPT !.branch = "notfound"], notFound)

\* a pending promise resolves (ok) or rejects
settle(c, ok) ==
    LET d == [c EXCEPT !.pending = "none",
                       !.failed = IF ok THEN @ ELSE @ \cup {c.pending}]
    IN  IF c.pending = "renderChartJs"
        THEN IF c.failFn = "none"
             THEN IF ok THEN respond(d, rendered("image/png", "png"))
                  ELSE [d EXCEPT !.unhandled = TRUE]
             ELSE IF ~ok THEN fail(d, M_Error, FALSE)
             ELSE IF c.failFn = "failPdf" THEN invoke(d, "getPdfBufferFromPng")
             ELSE IF c.failFn = "failSvg"
                  THEN respond(d, rendered("image/svg+xml", "svg"))
             ELSE respond(d, rendered("image/png", "png"))
        ELSE IF c.pending = "getPdfBufferFromPng"
        THEN IF ok THEN respond(d, rendered("application/pdf", "pdf"))
             ELSE fail(d, M_Error, FALSE)
        ELSE IF c.pending = "getPdfBufferWithText"
        THEN IF ok THEN respond(d, failPdf(c.msg, c.msgIsString))
             ELSE [d EXCEPT !.unhandled = TRUE]
        ELSE IF c.pending = "renderQr"
        THEN IF ~ok THEN respond(d, withErrorObject(failPng(M_Error, 500)))
             ELSE IF c.format = Str(S_png)
                  THEN respond(d, rendered("image/png", "png"))
             ELSE respond(d, rendered("image/svg+xml", "svg"))
        ELSE IF ok
             THEN IF c.format = Str(S_png)
                  THEN respond(d, rendered("image/png", "png"))
                  ELSE respond(d, rendered("image/svg+xml", "svg"))
             ELSE IF c.format = Str(S_png)
                  THEN respond(d, failPng(M_GraphError \o M_Error, 500))
                  ELSE respond(d, failSvg(M_GraphError \o M_Error, 500))

\* process.env of the routes: foo with rph:1, bar with rps:1, no limita
EnvRoute ==
    [authn |-> (0 :> K_foo) @@ (1 :> K_bar),
     limit |-> (0 :> <<"r", "p", "h", ":", "1">>) @@ (1 :> S_rps1),
     limita |-> Undefined, order |-> <<0, 1>>]

InitRoute ==
    /\ env = EnvRoute
    /\ apiKeys = loadKeys(EnvRoute)
    /\ requestCounts = EmptyObj
    /\ now = StartNow
    /\ last = NoLast
    /\ hist = [k \in DOMAIN loadKeys(EnvRoute) |-> [u \in Units |-> NoHist]]
    /\ nreq = 0
    /\ nticks = 0
    /\ InitParseIdle
    /\ InitRouteIdle

Receive_passOn(req, translated) ==
    /\ nrecv < MaxRecv
    /\ cur.pending = "none"
    /\ nrecv' = nrecv + 1
    /\ IF isPublicRoute(req.method, req.path)
       THEN /\ cur' = publicRoute(Start(req, "skipped"))
            /\ UNCHANGED <<requestCounts, last, hist, nreq>>
       ELSE /\ authAndRateLimitStep(req)
            /\ cur' = IF last'.next
                      THEN protectedRoute(Start(req, "admitted"), translated)
                      ELSE protectedRoute(respond(Start(req, "denied"), last'.res),
                                          translated)
    /\ UNCHANGED <<env, apiKeys, now, nticks, parseVars, inflight, admits>>

\* one request arrives once the one before is done with: the public routes
\* first, then the gate, then the protected routes
Receive(req, translated) ==
    /\ nrecv < MaxRecv
    /\ cur.pending = "none"
    /\ nrecv' = nrecv + 1
    /\ IF isPublicRoute(req.method, req.path)
       THEN /\ cur' = publicRoute(Start(req, "skipped"))
            /\ UNCHANGED <<requestCounts, last, hist, nreq>>
       ELSE /\ authAndRateLimitStep(req)
            /\ cur' = IF last'.next
                      THEN protectedRoute(Start(req, "admitted"), translated)
                      ELSE respond(Start(req, "denied"), last'.res)
    /\ UNCHANGED <<env, apiKeys, now, nticks, parseVars, inflight, admits>>

\* the pending promise of the request settles
Settle(ok) ==
    /\ cur.pending # "none"
    /\ cur' = settle(cur, ok)
    /\ UNCHANGED <<gateVars, parseVars, nrecv, inflight, admits>>

\* what toChartJs can do on a request: return or, when the request reaches it,
\* throw
Translations(req) ==
    {TRUE} \cup {b \in {FALSE} :
                    "toChartJs" \in protectedRoute(Start(req, "admitted"), b).invoked}

NextRoute ==
    \/ \E req \in RouteRequests :
           \E translated \in Translations(req) : Receive(req, translated)
    \/ \E ok \in BOOLEAN : Settle(ok)

SpecRoute == InitRoute /\ [][NextRoute]_vars

\* ------------------------------------------------------------- properties
Min(a, b) == IF a <= b THEN a ELSE b

\* the units a registered key has a bound on, and the bound
Conf(k) == {u \in Units : LimitProp[u] \in DOMAIN apiKeys[k]}

Bound(k, u) == apiKeys[k][LimitProp[u]]

\* the latest gate check was made with key k
LastBy(k) == last.seen /\ last.key = k

\* window u of key k passes after the latest check of k: the bound is not 0
\* and the stored counter is the one of the bucket of that check, within
\* the bound
Passes(k, u) ==
    /\ Bound(k, u) # 0
    /\ k \in DOMAIN requestCounts
    /\ TsKey[u] \in DOMAIN requestCounts[k]
    /\ requestCounts[k][TsKey[u]] = hist[k][u].bucket
    /\ requestCounts[k][CountKey[u]] <= Bound(k, u)

\* C1: for a key with a single bound b >= 1 on one unit u, of the gate checks
\* of the key that fall in one bucket of u the first b are admitted and every
\* later one is denied with 429, whatever the other keys do in between
C1_FirstBAdmitted ==
    \A k \in DOMAIN apiKeys : \A u \in Units :
        (Conf(k) = {u} /\ Bound(k, u) >= 1) =>
            /\ hist[k][u].admitted = Min(hist[k][u].checks, Bound(k, u))
            /\ LastBy(k) =>
                 /\ last.next <=> hist[k][u].checks <= Bound(k, u)
                 /\ ~last.next => last.res.status = 429

\* a key with the single bound rph:1 denied on its second check of the hour,
\* another key having been checked as well
C1_Witness ==
    \E k \in DOMAIN apiKeys : \E u \in Units :
        /\ Conf(k) = {u}
        /\ Bound(k, u) >= 1
        /\ LastBy(k)
        /\ hist[k][u].checks > Bound(k, u)
        /\ last.res.status = 429
        /\ \E k2 \in DOMAIN requestCounts : k2 # k

\* C2: a gate check of a registered key is admitted if and only if the
\* window of every unit the key has a bound on passes; and no bucket of a
\* unit with bound b >= 1 ever sees more than b admitted requests of the key
C2_AdmittedIffAllPass ==
    \A k \in DOMAIN apiKeys :
        /\ LastBy(k) => (last.next <=> \A u \in Conf(k) : Passes(k, u))
        /\ \A u \in Conf(k) :
               Bound(k, u) >= 1 => hist[k][u].admitted <= Bound(k, u)

\* a key with several bounds denied by the hour window while its second
\* window passes
C2_Witness ==
    \E k \in DOMAIN apiKeys :
        /\ LastBy(k)
        /\ {"s", "h"} \subseteq Conf(k)
        /\ ~last.next
        /\ Passes(k, "s")
        /\ ~Passes(k, "h")

\* C3: a registered key with a bound of 0 on any unit is denied with 429 on
\* every gate check; the strings 0 and rps:0 give such a bound
C3_ZeroBlocks ==
    /\ \A k \in DOMAIN apiKeys :
           (LastBy(k) /\ \E u \in Conf(k) : Bound(k, u) = 0) =>
               ~last.next /\ last.res.status = 429
    /\ (0 \in DOMAIN env.limit
        /\ env.limit[0] \in {<<"0">>, <<"r", "p", "s", ":", "0">>}) =>
           ("s" \in Conf(env.authn[0]) /\ Bound(env.authn[0], "s") = 0)
    /\ env.limita = Str(<<"0">>) =>
           ("s" \in Conf(ANONYMOUS) /\ Bound(ANONYMOUS, "s") = 0)

\* the key whose limit is the bare string 0 denied after time has passed
C3_Witness ==
    /\ 0 \in DOMAIN env.limit
    /\ env.limit[0] = <<"0">>
    /\ LastBy(K_foo)
    /\ nticks >= 1
    /\ last.res.status = 429

\* C4: a request whose key is not in the registry is answered 401 and not
\* admitted, never 429; a request whose key is in the registry is never
\* answered 401
C4_UnknownIs401 ==
    last.seen =>
        /\ last.key \notin DOMAIN apiKeys =>
               last.res.status = 401 /\ ~last.next
        /\ last.key \in DOMAIN apiKeys => last.res.status # 401

\* an unknown key answered 401 while the anonymous key is unlimited
C4_Witness ==
    /\ last.seen
    /\ last.key = K_bad
    /\ last.res.status = 401
    /\ apiKeys[ANONYMOUS] = EmptyObj

\* C5: on every gate check of a registered key the counter of every unit
\* with a non-zero bound is updated, whether the request is admitted or
\* denied and whichever unit denies it: the stored counter of such a unit
\* is the number of checks of the key in the bucket of its latest check
C5_EveryWindowCounted ==
    \A k \in DOMAIN requestCounts : \A u \in Conf(k) :
        Bound(k, u) # 0 =>
            /\ TsKey[u] \in DOMAIN requestCounts[k]
            /\ requestCounts[k][TsKey[u]] = hist[k][u].bucket
            /\ requestCounts[k][CountKey[u]] = hist[k][u].checks

\* the rollover case of unit u for key k: the latest check was by k, it was
\* the first of its bucket of u, and an earlier bucket of u saw checks of k
RolledOver(k, u) ==
    /\ LastBy(k)
    /\ u \in Conf(k)
    /\ Bound(k, u) >= 1
    /\ hist[k][u].checks = 1
    /\ hist[k][u].before >= 1

\* C6 as stated: the first gate check after the boundary of u is crossed
\* sets the stored bucket of u to the new bucket and its count to 1, and is
\* admitted
C6_RolloverAdmitted ==
    \A k \in DOMAIN apiKeys : \A u \in Units :
        RolledOver(k, u) =>
            /\ Passes(k, u)
            /\ requestCounts[k][CountKey[u]] = 1
            /\ last.next

\* C6 as amended: the first gate check after the boundary of u is crossed is
\* admitted if and only if every other window of the key passes, even if the
\* bucket before was exhausted; when it is admitted the stored bucket of u is
\* the new bucket and its count is 1
C6_RolloverAdmittedIffOthersPass ==
    \A k \in DOMAIN apiKeys : \A u \in Units :
        RolledOver(k, u) =>
            /\ last.next <=> \A v \in Conf(k) \ {u} : Passes(k, v)
            /\ last.next =>
                   Passes(k, u) /\ requestCounts[k][CountKey[u]] = 1

\* a key admitted on the first check of a bucket, the bucket before having
\* been exhausted
C6_Witness ==
    \E k \in DOMAIN apiKeys : \E u \in Units :
        /\ RolledOver(k, u)
        /\ hist[k][u].before > Bound(k, u)
        /\ last.next

\* the request carries no credential: no Authorization header, no key field
NoCredential(req) ==
    "authorization" \notin DOMAIN req.headers /\ "key" \notin DOMAIN req.query

\* C7: when at least one authn key is configured, a request to a protected
\* route that carries no credential is not admitted
C7_KeyRequired ==
    (DOMAIN env.authn # {} /\ last.seen /\ NoCredential(last.req)) =>
        ~last.next

\* the key the claim gives a request: the one after "Bearer " when the
\* header has that form, else the query key, else the anonymous key
BearerKeys(req) ==
    IF "authorization" \in DOMAIN req.headers
    THEN {k \in {K_foo, K_bar, K_bad} :
              req.headers["authorization"] = S_Bearer \o k}
    ELSE {}

ClaimedKey(req) ==
    IF BearerKeys(req) # {} THEN CHOOSE k \in BearerKeys(req) : TRUE
    ELSE IF "key" \in DOMAIN req.query /\ req.query["key"] # <<>>
         THEN req.query["key"]
    ELSE ANONYMOUS

\* C8: the gate uses the Bearer key when there is one, else the query key,
\* else the anonymous key: the outcome is the one of that key (401 exactly
\* when it is not registered) and no counter of another key is touched
C8_BearerFirst ==
    [][nreq' # nreq =>
         LET k == ClaimedKey(last'.req)
         IN  /\ last'.key = k
             /\ (k \notin DOMAIN apiKeys) <=> (last'.res.status = 401)
             /\ k \in DOMAIN apiKeys => k \in DOMAIN requestCounts'
             /\ \A x \in DOMAIN requestCounts' \ {k} :
                    /\ x \in DOMAIN requestCounts
                    /\ requestCounts'[x] = requestCounts[x]
             /\ \A x \in DOMAIN hist \ {k} : hist'[x] = hist[x]]_vars

\* a request with Bearer foo and key=bar counted for foo, bar never counted
C8_Witness ==
    /\ last.seen
    /\ last.req = Req(Hdr(H_BearerFoo), Qry(K_bar))
    /\ last.key = K_foo
    /\ K_foo \in DOMAIN requestCounts
    /\ K_bar \notin DOMAIN requestCounts

\* authn0 = foo with limit0 = rph:1
EnvRph1 ==
    /\ 0 \in DOMAIN env.authn
    /\ env.authn[0] = K_foo
    /\ 0 \in DOMAIN env.limit
    /\ env.limit[0] = <<"r", "p", "h", ":", "1">>

\* C9: with authn0 = foo and limit0 = rph:1 the requests of foo are admitted
\* once per hour bucket; every further one of the bucket gets status 429,
\* a PNG body, the header X-quickchart-error, and is not passed on
C9_OncePerHour ==
    EnvRph1 =>
        /\ hist[K_foo]["h"].admitted = Min(hist[K_foo]["h"].checks, 1)
        /\ (LastBy(K_foo) /\ hist[K_foo]["h"].checks >= 2) =>
               /\ ~last.next
               /\ last.res.status = 429
               /\ last.res.contentType = "image/png"
               /\ last.res.body = [kind |-> "png",
                                   text |-> M_ChartError \o M_TooManyRequests]
               /\ last.res.errorHeader = M_TooManyRequests

\* the second request of foo with Bearer foo in one hour bucket
C9_Witness ==
    /\ EnvRph1
    /\ LastBy(K_foo)
    /\ last.req.headers = Hdr(H_BearerFoo)
    /\ hist[K_foo]["h"].checks = 2
    /\ hist[K_foo]["h"].admitted = 1
    /\ last.res.status = 429

\* C10: parseLimits gives the LimitSpec of the reference parser on every
\* limit string tried
C10_ParseAgrees == ppc = "done" => pout = refParse(pin)

\* the bound stored for property p comes from a literal of the input: the
\* input is a string of digits, or one of its segments is unit:digits for
\* the unit of p with that value
FromLiteral(p, n) ==
    \/ p = "rps" /\ isNatLiteral(pin.s) /\ decimalValue(pin.s) = n
    \/ \E i \in 1..Len(split(pin.s, ",")) :
           LET pieces == split(split(pin.s, ",")[i], ":")
           IN  /\ Len(pieces) >= 2
               /\ pieces[1] \in LimitKeys
               /\ PropName(pieces[1]) = p
               /\ isNatLiteral(pieces[2])
               /\ decimalValue(pieces[2]) = n

\* C11: every bound parseLimits returns is a non-negative integer that a
\* non-negative integer literal of the input gives; a bare input or a
\* segment value that is no such literal is ignored, never stored
C11_BoundsNonNegative ==
    ppc = "done" =>
        \A p \in DOMAIN pout : pout[p] >= 0 /\ FromLiteral(p, pout[p])

\* ------------------------------------------- requests in flight together
\* process.env: foo with one bound, rpm:2 or rph:1, and bar with rps:1
FlightEnvs ==
    {[authn |-> (0 :> K_foo) @@ (1 :> K_bar), limit |-> (0 :> x) @@ (1 :> S_rps1),
      limita |-> Undefined, order |-> <<0, 1>>] :
        x \in {<<"r", "p", "m", ":", "2">>, <<"r", "p", "h", ":", "1">>}}

FlightRequests ==
    {Req(Hdr(H_BearerFoo), EmptyObj), Req(EmptyObj, Qry(K_bar)),
     Req(EmptyObj, EmptyObj)}

InitFlight ==
    /\ env \in FlightEnvs
    /\ apiKeys = loadKeys(env)
    /\ requestCounts = EmptyObj
    /\ now = StartNow
    /\ last = NoLast
    /\ hist = [k \in DOMAIN loadKeys(env) |-> [u \in Units |-> NoHist]]
    /\ nreq = 0
    /\ nticks = 0
    /\ InitParseIdle
    /\ InitRouteIdle

\* a request arrives while others are being rendered: the middleware runs
\* from its first line to next() or to the denial with no await, so no other
\* request runs in between; an admitted request then waits for its render
Arrive(req) ==
    /\ authAndRateLimitStep(req)
    /\ inflight' = IF last'.next
                   THEN inflight \cup {[id |-> nreq + 1, key |-> last'.key]}
                   ELSE inflight
    /\ UNCHANGED <<env, apiKeys, now, nticks, parseVars, cur, nrecv, admits>>

\* the render of a request in flight ends and its response is written
Finish(r) ==
    /\ r \in inflight
    /\ inflight' = inflight \ {r}
    /\ UNCHANGED <<gateVars, parseVars, cur, nrecv, admits>>

NextFlight ==
    \/ \E req \in FlightRequests : Arrive(req)
    \/ \E r \in inflight : Finish(r)
    \/ \E d \in TickSteps : Tick(d)

SpecFlight == InitFlight /\ [][NextFlight]_vars

\* ------------------------------------------------- keys side by side
\* process.env: foo with rpm:2, and a second key with rpm:2 that is bar or
\* __proto__
ShareEnvs ==
    {[authn |-> (0 :> K_foo) @@ (1 :> b),
      limit |-> (0 :> <<"r", "p", "m", ":", "2">>)
                @@ (1 :> <<"r", "p", "m", ":", "2">>),
      limita |-> Undefined, order |-> <<0, 1>>] : b \in {K_bar, K_proto}}

ShareRequests ==
    {Req(Hdr(H_BearerFoo), EmptyObj), Req(EmptyObj, Qry(K_bar)),
     Req(EmptyObj, Qry(K_proto)), Req(EmptyObj, EmptyObj),
     Req(Hdr(H_BasicFoo), EmptyObj)}

InitShare ==
    /\ env \in ShareEnvs
    /\ apiKeys = loadKeys(env)
    /\ requestCounts = EmptyObj
    /\ now = StartNow
    /\ last = NoLast
    /\ hist = [k \in DOMAIN loadKeys(env) |-> [u \in Units |-> NoHist]]
    /\ nreq = 0
    /\ nticks = 0
    /\ InitParseIdle
    /\ InitRouteIdle

NextShare ==
    \/ \E req \in ShareRequests : authAndRateLimit(req)
    \/ \E d \in TickSteps : Tick(d)

SpecShare == InitShare /\ [][NextShare]_vars

\* ------------------------------------------------ bursts at a boundary
\* process.env: foo with rps:1 or rps:2, bar with rps:1
BurstEnvs ==
    {[authn |-> (0 :> K_foo) @@ (1 :> K_bar), limit |-> (0 :> x) @@ (1 :> S_rps1),
      limita |-> Undefined, order |-> <<0, 1>>] :
        x \in {S_rps1, <<"r", "p", "s", ":", "2">>}}

BurstRequests == {Req(Hdr(H_BearerFoo), EmptyObj), Req(EmptyObj, Qry(K_bar))}

\* the steps of the clock: within a second, across its end, and a minute
BurstSteps == {400, 600, 1000 * 60}

InitBurst ==
    /\ env \in BurstEnvs
    /\ apiKeys = loadKeys(env)
    /\ requestCounts = EmptyObj
    /\ now = StartNow
    /\ last = NoLast
    /\ hist = [k \in DOMAIN loadKeys(env) |-> [u \in Units |-> NoHist]]
    /\ nreq = 0
    /\ nticks = 0
    /\ InitParseIdle
    /\ InitRouteIdle

\* the middleware on one request, the time of every admission being noted
Admit(req) ==
    /\ authAndRateLimitStep(req)
    /\ admits' = IF last'.next
                 THEN Append(admits, [key |-> last'.key, t |-> now])
                 ELSE admits
    /\ UNCHANGED <<env, apiKeys, now, nticks, parseVars, cur, nrecv, inflight>>

NextBurst ==
    \/ \E req \in BurstRequests : Admit(req)
    \/ \E d \in BurstSteps : Tick(d)

SpecBurst == InitBurst /\ [][NextBurst]_vars

\* ------------------------------------------------- the registry at startup
\* process.env: an authn variable that holds _anonymous_, with limita unset
\* or set; two authn variables that hold foo; and foo and bar with limita
RegistryEnvs ==
    {[authn |-> (0 :> ANONYMOUS) @@ (1 :> K_bar),
      limit |-> (0 :> S_rps1) @@ (1 :> S_rps1),
      limita |-> la, order |-> <<0, 1>>] :
        la \in {Undefined, Str(<<"r", "p", "h", ":", "2">>)}}
    \cup
    {[authn |-> (0 :> K_foo) @@ (1 :> K_foo),
      limit |-> (0 :> <<"r", "p", "m", ":", "2">>) @@ (1 :> S_rps1),
      limita |-> Undefined, order |-> <<0, 1>>],
     [authn |-> (0 :> K_foo) @@ (1 :> K_bar),
      limit |-> (0 :> <<"r", "p", "h", ":", "1">>),
      limita |-> Str(<<"r", "p", "h", ":", "2">>), order |-> <<0, 1>>]}

\* the requests tried: the public routes, /qr, POST /chart and the page
RegistryRequests ==
    {r \in RouteRequests :
        \/ r.path \in {"/", "/telemetry", "/qr", "/qr-code-api"}
        \/ r.method = "POST" /\ r.path = "/chart"}

InitRegistry ==
    /\ env \in RegistryEnvs
    /\ apiKeys = loadKeys(env)
    /\ requestCounts = EmptyObj
    /\ now = StartNow
    /\ last = NoLast
    /\ hist = [k \in DOMAIN loadKeys(env) |-> [u \in Units |-> NoHist]]
    /\ nreq = 0
    /\ nticks = 0
    /\ InitParseIdle
    /\ InitRouteIdle

NextRegistry ==
    \/ \E req \in RegistryRequests :
           \E translated \in Translations(req) : Receive(req, translated)
    \/ \E ok \in BOOLEAN : Settle(ok)

SpecRegistry == InitRegistry /\ [][NextRegistry]_vars

\* ------------------------------------------------------ sizes requested
\* the integers tried: -1, 0 and the next ones, and those around 3000
SizeRange ==
    {0 - 1} \cup (0..MaxSize) \cup ((3000 - MaxSize)..(3000 + MaxSize))

V_abc == <<"a", "b", "c">>

\* the texts of a size field: an integer of the range or a word
SizeTexts == {String(n) : n \in SizeRange} \cup {V_abc}

\* /qr with size, cht=qr with chs, and charts with w and h or width and height
SizeShapes ==
    {<<"GET", "/qr", ("text" :> V_text) @@ s, EmptyObj>> :
         s \in Opt("size", SizeTexts)}
    \cup {<<"GET", p, ("cht" :> S_qr) @@ ("chs" :> x \o <<"x">> \o x), EmptyObj>> :
              p \in {"/chart", "/gchart"}, x \in SizeTexts}
    \cup {<<"GET", "/chart", ("c" :> V_chart) @@ w @@ h, EmptyObj>> :
              w \in Opt("w", SizeTexts), h \in Opt("height", {V_abc, <<"2">>})}
    \cup {<<"POST", "/chart", EmptyObj, ("c" :> V_chart) @@ w @@ h>> :
              w \in Opt("width", {V_abc, <<"2">>}), h \in Opt("h", SizeTexts)}

SizeRequests == {HttpReq(x[1], x[2], EmptyObj, x[3], x[4]) : x \in SizeShapes}

NextSize ==
    \/ \E req \in SizeRequests : Receive(req, TRUE)
    \/ \E ok \in BOOLEAN : Settle(ok)

SpecSize == InitRoute /\ [][NextSize]_vars

\* ------------------------------------------------ properties of the routes
\* the fields a request is read from
Fields(req) == IF req.method = "POST" THEN req.body ELSE req.query

IsNative(req) == req.path = "/chart" /\ ~truthy(Lookup(Fields(req), "cht"))

IsLegacy(req) ==
    /\ req.method = "GET"
    /\ req.path \in {"/chart", "/gchart"}
    /\ truthy(Lookup(req.query, "cht"))

\* the output format a render request asks for: f or format lower-cased for
\* a native chart, format for /qr
RequestedFormat(req) ==
    IF req.path = "/qr"
    THEN IF Lookup(req.query, "format") = Str(S_svg) THEN S_svg ELSE S_png
    ELSE IF IsNative(req) THEN outputFormat(Fields(req))
    ELSE <<>>

ContentTypeOf(f) ==
    IF f = S_svg THEN "image/svg+xml"
    ELSE IF f = S_pdf THEN "application/pdf"
    ELSE "image/png"

\* C12: every failure response of a protected request that asks for png, svg
\* or pdf (a gate denial 401/429, a missing parameter, a renderer failure)
\* has the content type of that format
C12_FailureInRequestedFormat ==
    (cur.active /\ RequestedFormat(cur.req) \in {S_png, S_svg, S_pdf}) =>
        \A i \in 1..Len(cur.responses) :
            cur.responses[i].status >= 400 =>
                cur.responses[i].contentType =
                    ContentTypeOf(RequestedFormat(cur.req))

IsRenderRoute(req) ==
    \/ req.path = "/chart" /\ req.method \in {"GET", "POST"}
    \/ req.method = "GET" /\ req.path \in {"/qr", "/gchart"}

\* C13: a request the gate admitted to a render route never has two
\* responses written, and has exactly one once no promise of it is pending,
\* whether the promise resolved or rejected
C13_ExactlyOneResponse ==
    (cur.active /\ cur.gate = "admitted" /\ IsRenderRoute(cur.req)) =>
        /\ Len(cur.responses) <= 1
        /\ cur.pending = "none" => Len(cur.responses) = 1

\* C14: for output format pdf a failure of the PDF collaborator in either
\* conversion step leaves no rejection unhandled, and the request still gets
\* a failure response
C14_PdfFailureHandled ==
    (cur.active /\ cur.failFn = "failPdf"
         /\ cur.failed \cap {"getPdfBufferFromPng", "getPdfBufferWithText"} # {}) =>
        /\ ~cur.unhandled
        /\ cur.pending = "none" =>
               /\ Len(cur.responses) = 1
               /\ cur.responses[1].status >= 400

\* C15: a native chart request, by GET or by POST, whose output format is not
\* png, svg or pdf gets status 500 with a body of plain text, and no
\* collaborator is invoked for it
C15_UnsupportedFormat ==
    (cur.active /\ cur.gate = "admitted" /\ IsNative(cur.req)
         /\ outputFormat(Fields(cur.req)) \notin {S_png, S_svg, S_pdf}) =>
        /\ cur.invoked = {}
        /\ Len(cur.responses) = 1
        /\ cur.responses[1].status = 500
        /\ cur.responses[1].body.kind = "text"

\* C16: no request to a protected route makes an exception leave the
\* handler, whatever query fields are present or absent
C16_NoExceptionEscapes ==
    (cur.active /\ cur.gate # "skipped") => ~cur.thrown

\* C17: a native chart request with neither c nor chart, asking for png, svg
\* or pdf, never has the chart renderer invoked and is answered, once
\* nothing is pending, by one response of status 500 in the requested format
\* that carries the message 'You are missing variable `c` or `chart`'
C17_MissingChart ==
    (cur.active /\ cur.gate = "admitted" /\ IsNative(cur.req)
         /\ ~truthy(Or(Lookup(Fields(cur.req), "c"),
                       Lookup(Fields(cur.req), "chart")))
         /\ outputFormat(Fields(cur.req)) \in {S_png, S_svg, S_pdf}) =>
        /\ "renderChartJs" \notin cur.invoked
        /\ Len(cur.responses) <= 1
        /\ cur.pending = "none" =>
               /\ Len(cur.responses) = 1
               /\ cur.responses[1].status = 500
               /\ cur.responses[1].contentType =
                      ContentTypeOf(outputFormat(Fields(cur.req)))
               /\ cur.responses[1].errorHeader = M_MissingChart
               /\ cur.responses[1].body.text \in
                      {M_MissingChart, M_ChartError \o M_MissingChart}

\* cht is neither qr nor prefixed gv
IsTranslated(req) ==
    LET cht == req.query["cht"]
    IN  /\ IsLegacy(req)
        /\ ~(Len(cht) >= 2 /\ cht[1] = "g" /\ cht[2] = "v")
        /\ cht # <<"q", "r">>

\* C18: on the legacy path with cht neither qr nor prefixed gv, a request
\* with format=chartjs-config whose translation succeeds is answered at once
\* by one response of status 200 that is structured text, not an image; the
\* chart renderer is never invoked and nothing stays pending
C18_ConfigIsTerminal ==
    (cur.active /\ cur.gate = "admitted" /\ IsTranslated(cur.req)
         /\ Lookup(cur.req.query, "format") = Str(S_chartjsConfig)
         /\ "toChartJs" \notin cur.failed) =>
        /\ cur.invoked = {"toChartJs"}
        /\ cur.pending = "none"
        /\ Len(cur.responses) = 1
        /\ cur.responses[1].status = 200
        /\ cur.responses[1].contentType = "application/json"
        /\ cur.responses[1].body.kind = "json"

\* GET /gchart?cht=bvs&format=chartjs-config translated and answered
C18_Witness ==
    /\ cur.active
    /\ cur.gate = "admitted"
    /\ cur.req.path = "/gchart"
    /\ IsTranslated(cur.req)
    /\ Lookup(cur.req.query, "format") = Str(S_chartjsConfig)
    /\ cur.invoked = {"toChartJs"}
    /\ cur.failed = {}
    /\ Len(cur.responses) = 1

\* the text between the first ':' of cht and the next one, or dot when cht
\* has no ':'
EngineOf(cht) ==
    IF \A i \in 1..Len(cht) : cht[i] # ":" THEN <<"d", "o", "t">>
    ELSE LET i == CHOOSE j \in 1..Len(cht) :
                      cht[j] = ":" /\ \A k \in 1..(j - 1) : cht[k] # ":"
             e == {j \in (i + 1)..Len(cht) : cht[j] = ":"} \cup {Len(cht) + 1}
             n == CHOOSE j \in e : \A k \in e : j <= k
         IN  SubSeq(cht, i + 1, n - 1)

\* C19: a GET /chart or /gchart request with cht goes to the Graphviz
\* collaborator iff cht starts with gv, with the engine of the suffix or dot,
\* to the QR collaborator iff cht is qr, and to the translator otherwise; no
\* collaborator of another branch is invoked and the native chart pipeline
\* is never entered
C19_LegacyDispatch ==
    (cur.active /\ cur.gate = "admitted" /\ IsLegacy(cur.req)) =>
        LET cht == cur.req.query["cht"]
            gv  == Len(cht) >= 2 /\ cht[1] = "g" /\ cht[2] = "v"
            qr  == cht = <<"q", "r">>
        IN  /\ cur.branch \in {"graphviz", "qr", "translate"}
            /\ cur.branch = "graphviz" <=> gv
            /\ cur.branch = "qr" <=> qr
            /\ cur.branch = "translate" <=> (~gv /\ ~qr)
            /\ gv => /\ cur.invoked = {"renderGraphviz"}
                     /\ cur.engine = EngineOf(cht)
            /\ qr => cur.invoked \subseteq {"renderQr"}
            /\ (~gv /\ ~qr) => /\ "toChartJs" \in cur.invoked
                               /\ cur.invoked \subseteq {"toChartJs", "renderChartJs"}
            /\ cur.failFn = "none"

\* GET /chart?cht=gv:neato was sent to Graphviz with the engine neato
C19_Witness ==
    /\ cur.active
    /\ cur.gate = "admitted"
    /\ cur.req.path = "/chart"
    /\ Lookup(cur.req.query, "cht") = Str(V_gvNeato)
    /\ cur.branch = "graphviz"
    /\ cur.engine = <<"n", "e", "a", "t", "o">>
    /\ "renderGraphviz" \in cur.invoked

\* the routes the documentation lists as public
PublicListed(req) ==
    \/ req.method = "GET" /\ req.path = "/"
    \/ req.method = "POST" /\ req.path = "/telemetry"
    \/ req.method = "GET" /\ req.path = "/healthcheck"
    \/ req.method = "GET" /\ req.path = "/healthcheck/chart"

\* C20: a request to a public route does not pass through the gate: it is
\* not answered 401 or 429 whatever its credential, and the window counters
\* and the gate's record stay as they were; a request to any other route
\* passes through the gate first, and a handler is reached only when the gate
\* admitted it
C20_PublicBypassGate ==
    [][nrecv' = nrecv + 1 =>
          IF PublicListed(cur'.req)
          THEN /\ cur'.gate = "skipped"
               /\ cur'.branch = "public"
               /\ requestCounts' = requestCounts
               /\ hist' = hist
               /\ last' = last
               /\ \A i \in 1..Len(cur'.responses) :
                      cur'.responses[i].status \notin {401, 429}
          ELSE /\ cur'.gate \in {"admitted", "denied"}
               /\ last'.seen /\ last'.req = cur'.req
               /\ nreq' = nreq + 1
               /\ cur'.gate = "admitted" <=> last'.next
               /\ cur'.gate = "denied" =>
                      /\ cur'.branch = "none"
                      /\ cur'.invoked = {}
                      /\ cur'.responses = <<last'.res>>
                      /\ last'.res.status \in {401, 429}
               /\ cur'.gate = "admitted" => cur'.branch \notin {"none", "public"}
    ]_vars

\* key foo has used up its hour, and a GET /healthcheck that carries
\* Bearer foo is answered 200 with the counters as they were
C20_Witness ==
    /\ cur.active
    /\ cur.req.method = "GET"
    /\ cur.req.path = "/healthcheck"
    /\ cur.req.headers = Hdr(H_BearerFoo)
    /\ cur.gate = "skipped"
    /\ Len(cur.responses) = 1
    /\ cur.responses[1].status = 200
    /\ hist[K_foo]["h"].admitted = 1
    /\ nreq = 1

\* the renders of key k in flight
InFlight(k) == {r \in inflight : r.key = k}

\* C21: the gate's read-modify-write is atomic and does not span the render:
\* of the N checks of a key with the single bound b >= 1 that fall in one
\* bucket, renders overlapping in any way, exactly min(N, b) are admitted,
\* and the stored counter of the bucket is N (no increment is lost)
C21_AtomicUpdate ==
    \A k \in DOMAIN apiKeys : \A u \in Units :
        (Conf(k) = {u} /\ Bound(k, u) >= 1 /\ hist[k][u].checks >= 1) =>
            /\ hist[k][u].admitted = Min(hist[k][u].checks, Bound(k, u))
            /\ requestCounts[k][TsKey[u]] = hist[k][u].bucket
            /\ requestCounts[k][CountKey[u]] = hist[k][u].checks

\* key foo with rpm:2: two of its requests are being rendered when a third
\* of the same minute is denied
C21_Witness ==
    /\ Conf(K_foo) = {"m"}
    /\ Bound(K_foo, "m") = 2
    /\ Cardinality(InFlight(K_foo)) = 2
    /\ hist[K_foo]["m"].checks = 3
    /\ hist[K_foo]["m"].admitted = 2
    /\ LastBy(K_foo)
    /\ last.res.status = 429

\* C22: limits are per credential: a gate check by one key leaves what every
\* other registered key reads as its counters unchanged, the checks of a key
\* with a single bound b >= 1 are admitted by the number of its own checks in
\* the bucket alone, and every request with no credential is counted on the
\* one key _anonymous_
C22_PerCredential ==
    [][nreq' = nreq + 1 =>
          /\ \A k \in DOMAIN apiKeys :
                 k # last'.key =>
                     countsOf(requestCounts', k) = countsOf(requestCounts, k)
          /\ \A k \in DOMAIN apiKeys : \A u \in Units :
                 (Conf(k) = {u} /\ Bound(k, u) >= 1) =>
                     hist'[k][u].admitted = Min(hist'[k][u].checks, Bound(k, u))
          /\ NoCredential(last'.req) =>
                 /\ last'.key = ANONYMOUS
                 /\ \A k \in DOMAIN requestCounts' :
                        k # ANONYMOUS =>
                            /\ k \in DOMAIN requestCounts
                            /\ requestCounts'[k] = requestCounts[k]
    ]_vars

\* the (bucket id, count) pairs the store holds
Pairs(store) ==
    {<<k, u>> \in (DOMAIN store) \X Units :
        TsKey[u] \in DOMAIN store[k] \/ CountKey[u] \in DOMAIN store[k]}

\* every entry is of a registered key and holds nothing but the bucket id
\* and the count of a unit, so one pair per unit at most
StoreShape(store) ==
    /\ DOMAIN store \subseteq DOMAIN apiKeys
    /\ \A k \in DOMAIN store :
           DOMAIN store[k] \subseteq
               {TsKey[u] : u \in Units} \cup {CountKey[u] : u \in Units}
    /\ Cardinality(Pairs(store)) <= 4 * Cardinality(DOMAIN apiKeys)

\* C23: after every gate check the store holds entries of registered keys
\* only, with at most one (bucket id, count) pair per key and unit, so at
\* most 4 pairs per registered key; a check with an unknown key leaves the
\* store as it was
C23_StoreBounded ==
    [][nreq' = nreq + 1 =>
          /\ StoreShape(requestCounts')
          /\ last'.res.status = 401 => requestCounts' = requestCounts
    ]_vars

\* an unknown key has just been refused while the store holds the pairs of
\* two units of a registered key
C23_Witness ==
    /\ last.seen
    /\ last.res.status = 401
    /\ last.key \notin DOMAIN apiKeys
    /\ \E k \in DOMAIN requestCounts :
           Cardinality({p \in Pairs(requestCounts) : p[1] = k}) >= 2

\* the admissions of key k from the i-th to the j-th of all
Burst(k, i, j) == {l \in i..j : admits[l].key = k}

\* C24: for a key with bound b >= 1 on unit u, the requests of the key
\* admitted in an interval no longer than one window of u are 2b at most
C24_BurstBound ==
    \A k \in DOMAIN apiKeys : \A u \in Conf(k) :
        Bound(k, u) >= 1 =>
            \A i \in 1..Len(admits) : \A j \in i..Len(admits) :
                admits[j].t - admits[i].t <= WindowMs[u] =>
                    Cardinality(Burst(k, i, j)) <= 2 * Bound(k, u)

\* a burst of 2b: key bar with rps:1 admitted at the end of one second and
\* again at the start of the next, less than a second apart
C24_Witness ==
    \E i \in 1..Len(admits) : \E j \in (i + 1)..Len(admits) :
        /\ admits[i].key = K_bar
        /\ admits[j].key = K_bar
        /\ Bound(K_bar, "s") = 1
        /\ admits[j].t - admits[i].t < WindowMs["s"]
        /\ Bucket("s", admits[j].t) = Bucket("s", admits[i].t) + 1

\* C25: in every state the registry holds the authn values and _anonymous_
\* and nothing else, one LimitSpec each: the one of _anonymous_ is
\* parseLimits(limita), empty when limita is unset, also when an authn
\* variable holds _anonymous_; the one of any other key is the LimitSpec of
\* an authn variable that holds the key; no gate check and no handler
\* changes it
C25_RegistryFixed ==
    /\ DOMAIN apiKeys = {env.authn[i] : i \in DOMAIN env.authn} \cup {ANONYMOUS}
    /\ apiKeys[ANONYMOUS] = parseLimits(env.limita)
    /\ ~env.limita.def => apiKeys[ANONYMOUS] = EmptyObj
    /\ \A k \in DOMAIN apiKeys \ {ANONYMOUS} :
           \E i \in DOMAIN env.authn :
               /\ env.authn[i] = k
               /\ apiKeys[k] = parseLimits(Lookup(env.limit, i))

\* authn0 holds _anonymous_ with limit0 = rps:1 and limita is unset: two
\* requests with no credential have passed the gate and a handler has
\* answered
C25_Witness ==
    /\ 0 \in DOMAIN env.authn
    /\ env.authn[0] = ANONYMOUS
    /\ ~env.limita.def
    /\ nreq = 2
    /\ LastBy(ANONYMOUS)
    /\ last.next
    /\ cur.active
    /\ Len(cur.responses) = 1

\* the number a field of the request reads as, when it is one
IsNumber(v) == v.def /\ ~parseInt(v.s).nan

\* C26: the size handed to the QR collaborator is a number of at most 3000
\* on GET /qr and on cht=qr alike, the default size when the size is missing
\* or no number; the width and height handed to the chart renderer are 500
\* and 300 when missing or no number
C26_SizeBounded ==
    /\ (cur.active /\ "renderQr" \in cur.invoked) =>
           /\ ~cur.size.nan
           /\ cur.size.val <= 3000
           /\ (cur.req.path = "/qr" /\ ~IsNumber(Lookup(cur.req.query, "size")))
                  => cur.size = Num(DEFAULT_QR_SIZE)
    /\ (cur.active /\ "renderChartJs" \in cur.invoked /\ cur.branch = "native") =>
           LET opts == chartOpts(Fields(cur.req))
           IN  /\ ~IsNumber(opts.width) => cur.width = Num(500)
               /\ ~IsNumber(opts.height) => cur.height = Num(300)

\* C27: a request the gate denies has one response, the 401 or 429 the gate
\* wrote, and goes no further: no handler, no collaborator, no telemetry
\* counter, nothing pending; a request the gate admits has no response
\* from the gate
C27_DeniedStopsAtGate ==
    /\ (cur.active /\ cur.gate = "denied") =>
           /\ last.req = cur.req
           /\ ~last.next
           /\ cur.responses = <<last.res>>
           /\ last.res.status \in {401, 429}
           /\ cur.branch = "none"
           /\ cur.invoked = {}
           /\ cur.pending = "none"
           /\ cur.telemetry = "none"
    /\ (cur.active /\ cur.gate = "admitted") =>
           /\ last.req = cur.req
           /\ last.next
           /\ last.res = NoResponse
           /\ \A i \in 1..Len(cur.responses) :
                  cur.responses[i].status \notin {401, 429}

\* the second GET /chart of key foo within the hour, with a chart to render,
\* answered 429 by the gate
C27_Witness ==
    /\ cur.active
    /\ cur.gate = "denied"
    /\ cur.req.path = "/chart"
    /\ truthy(Lookup(cur.req.query, "c"))
    /\ cur.req.headers = Hdr(H_BearerFoo)
    /\ Len(cur.responses) = 1
    /\ cur.responses[1].status = 429

====
